---- MODULE Spec2Model ----
(***************************************************************************)
(* Model of .github/scripts/validate_packages_config.py: the filter that   *)
(* reads PACKAGES_CONFIG (TOML) on stdin, drops [__config__] and non-table *)
(* top-level keys, re-serializes the package tables to argv[1] and prints  *)
(* the package names on stdout.                                            *)
(*                                                                         *)
(* Text (Python str) is a sequence of one-character strings.  A Python     *)
(* value is a record tagged by its runtime type:                           *)
(*   [t |-> "bool",  b |-> BOOLEAN]                                        *)
(*   [t |-> "int",   i |-> Int]       an int given by its value            *)
(*   [t |-> "int",   digits |-> Nat]  an int given only by the number of   *)
(*                                    its decimal digits (0xFFF...F)       *)
(*   [t |-> "float", repr |-> text]   a float given by its repr()          *)
(*   [t |-> "str",   s |-> text]                                           *)
(*   [t |-> "list",  l |-> sequence of values]                             *)
(*   [t |-> "dict",  d |-> sequence of [k |-> text, v |-> value]]          *)
(*   [t |-> "other", text |-> text]   date/time objects, given by str()    *)
(* A dict is its items() in insertion order; its keys are distinct.        *)
(***************************************************************************)
EXTENDS Integers, Sequences, FiniteSets, TLC

VARIABLES
    argc,        \* len(sys.argv) - 1: the number of invocation arguments
    stdin,       \* what tomllib.loads makes of standard input
    stdinRead,   \* sys.stdin.read() has returned
    pc,          \* position in main()
    data,        \* main: data
    non_table,   \* main: non_table
    packages,    \* main: packages
    stderr,      \* notices written to sys.stderr, in order
    stdout,      \* lines written to sys.stdout, in order
    fh,          \* the handle of _write_packages: "none", "open", "closed"
    fileOpens,   \* how many times open(path, "w") created/truncated the file
    fileText,    \* the text of the file at path (valid once fileOpens > 0)
    wi,          \* _write_packages: index of the entry being written
    wj,          \* _write_packages: 0 header due, 1..n pair due, n+1 blank due
    exits,       \* the exit statuses the process has ended with
    rkey,        \* serializer harness: the key handed to _toml_key
    rval,        \* serializer harness: the value handed to _toml_value
    rout         \* serializer harness: the last rendering ("none" before any)

vars == <<argc, stdin, stdinRead, pc, data, non_table, packages, stderr, stdout,
          fh, fileOpens, fileText, wi, wj, exits, rkey, rval, rout>>

mainVars == <<argc, stdin, stdinRead, pc, data, non_table, packages, stderr,
              stdout, fh, fileOpens, fileText, wi, wj, exits>>

(***************************************************************************)
(* Text helpers (Python str methods).                                      *)
(***************************************************************************)

\* "".join(parts)
RECURSIVE Concat(_)
Concat(parts) ==
    IF parts = <<>> THEN <<>> ELSE Head(parts) \o Concat(Tail(parts))

\* sep.join(parts)
RECURSIVE Join(_, _)
Join(sep, parts) ==
    IF parts = <<>> THEN <<>>
    ELSE IF Len(parts) = 1 THEN parts[1]
    ELSE parts[1] \o sep \o Join(sep, Tail(parts))

\* s.replace(c, r) for a one-character c
Replace(s, c, r) ==
    Concat([n \in 1..Len(s) |-> IF s[n] = c THEN r ELSE <<s[n]>>])

Digits == <<"0", "1", "2", "3", "4", "5", "6", "7", "8", "9">>

RECURSIVE NatStr(_)
NatStr(n) ==
    IF n < 10 THEN <<Digits[n + 1]>>
    ELSE NatStr(n \div 10) \o <<Digits[(n % 10) + 1]>>

\* sys.int_info.default_max_str_digits: str(int) raises ValueError beyond it
MaxStrDigits == 4300

\* the number of decimal digits of an int value
DecDigits(value) ==
    IF "digits" \in DOMAIN value THEN value.digits
    ELSE Len(NatStr(IF value.i < 0 THEN -value.i ELSE value.i))

\* str(value) for an int within the digit limit
IntStr(value) ==
    IF value.i < 0 THEN <<"-">> \o NatStr(-value.i) ELSE NatStr(value.i)

Quote == "\""
Backslash == "\\"
Newline == "\n"

(***************************************************************************)
(* _BARE_KEY_RE and _toml_key                                              *)
(***************************************************************************)

\* the character class [A-Za-z0-9_-]
BareChars ==
    {"A", "B", "C", "D", "E", "F", "G", "H", "I", "J", "K", "L", "M",
     "N", "O", "P", "Q", "R", "S", "T", "U", "V", "W", "X", "Y", "Z",
     "a", "b", "c", "d", "e", "f", "g", "h", "i", "j", "k", "l", "m",
     "n", "o", "p", "q", "r", "s", "t", "u", "v", "w", "x", "y", "z",
     "0", "1", "2", "3", "4", "5", "6", "7", "8", "9", "_", "-"}

AllBare(s) == \A n \in 1..Len(s) : s[n] \in BareChars

\* _BARE_KEY_RE.match(key): ^ at 0, one or more class characters, then $,
\* which in Python matches at the end of the string and also just before a
\* newline that is the last character of the string
BareKeyMatch(key) ==
    \E n \in 1..Len(key) :
        /\ AllBare(SubSeq(key, 1, n))
        /\ \/ n = Len(key)
           \/ n = Len(key) - 1 /\ key[Len(key)] = Newline

_toml_key(key) ==
    IF BareKeyMatch(key) THEN key
    ELSE <<Quote>>
         \o Replace(Replace(key, Backslash, <<Backslash, Backslash>>),
                    Quote, <<Backslash, Quote>>)
         \o <<Quote>>

(***************************************************************************)
(* _toml_value                                                             *)
(***************************************************************************)

\* isinstance(value, T); bool is a subclass of int
IsInstance(value, T) ==
    IF T = "int" THEN value.t \in {"int", "bool"} ELSE value.t = T

\* _toml_value raises: str() of an int beyond the digit limit (line 29),
\* at any depth of the value
RECURSIVE Raises(_)
Raises(value) ==
    IF IsInstance(value, "bool") THEN FALSE
    ELSE IF IsInstance(value, "int") THEN DecDigits(value) > MaxStrDigits
    ELSE IF IsInstance(value, "list")
    THEN \E n \in 1..Len(value.l) : Raises(value.l[n])
    ELSE IF IsInstance(value, "dict")
    THEN \E n \in 1..Len(value.d) : Raises(value.d[n].v)
    ELSE FALSE

\* an escaping that handles the quote before the backslash
EscapeStrQuoteFirst(s) ==
    Replace(Replace(Replace(s, Quote, <<Backslash, Quote>>),
                    Backslash, <<Backslash, Backslash>>),
            Newline, <<Backslash, "n">>)

\* escaping of a str value, line 33
EscapeStr(s) ==
    Replace(Replace(Replace(s, Backslash, <<Backslash, Backslash>>),
                    Quote, <<Backslash, Quote>>),
            Newline, <<Backslash, "n">>)

\* the text _toml_value returns when it does not raise
RECURSIVE _toml_value(_)
_toml_value(value) ==
    IF IsInstance(value, "bool")
    THEN (IF value.b THEN <<"t", "r", "u", "e">> ELSE <<"f", "a", "l", "s", "e">>)
    ELSE IF IsInstance(value, "int") THEN IntStr(value)
    ELSE IF IsInstance(value, "float") THEN value.repr
    ELSE IF IsInstance(value, "str")
    THEN <<Quote>> \o EscapeStr(value.s) \o <<Quote>>
    ELSE IF IsInstance(value, "list")
    THEN <<"[">>
         \o Join(<<",", " ">>, [n \in 1..Len(value.l) |-> _toml_value(value.l[n])])
         \o <<"]">>
    ELSE IF IsInstance(value, "dict")
    THEN <<"{">>
         \o Join(<<",", " ">>,
                 [n \in 1..Len(value.d) |->
                     _toml_key(value.d[n].k) \o <<" ", "=", " ">>
                     \o _toml_value(value.d[n].v)])
         \o <<"}">>
    ELSE value.text

(***************************************************************************)
(* tomllib.loads, on the part of the TOML grammar that the written text    *)
(* uses: [table] headers, key = value lines, bare and basic-quoted keys,   *)
(* booleans, decimal integers, decimal floats, basic strings, arrays and   *)
(* inline tables.  Every parser returns [ok, v, p]: whether it accepted,   *)
(* what it read, and the position after it.  Text outside this part of the *)
(* grammar (comments, literal and multi-line strings, dotted keys, dates,  *)
(* \u escapes, arrays of tables) is rejected by the model.                 *)
(***************************************************************************)

Ok(v, p) == [ok |-> TRUE, v |-> v, p |-> p]
Fail == [ok |-> FALSE, v |-> <<>>, p |-> 0]

\* the character at p, "" past the end
At(s, p) == IF p \in 1..Len(s) THEN s[p] ELSE ""

\* s.startswith(word, p)
StartsWith(s, p, word) ==
    /\ p + Len(word) - 1 <= Len(s)
    /\ \A n \in 1..Len(word) : s[p + n - 1] = word[n]

RECURSIVE SkipWs(_, _)
SkipWs(s, p) == IF At(s, p) \in {" ", "\t"} THEN SkipWs(s, p + 1) ELSE p

\* inside an array newlines are whitespace too
RECURSIVE SkipWsNl(_, _)
SkipWsNl(s, p) ==
    IF At(s, p) \in {" ", "\t", Newline} THEN SkipWsNl(s, p + 1) ELSE p

RECURSIVE BareRun(_, _)
BareRun(s, p) == IF At(s, p) \in BareChars THEN BareRun(s, p + 1) ELSE p

DigitChars == {"0", "1", "2", "3", "4", "5", "6", "7", "8", "9"}

RECURSIVE DigitRun(_, _)
DigitRun(s, p) == IF At(s, p) \in DigitChars THEN DigitRun(s, p + 1) ELSE p

DigitVal(c) == CHOOSE d \in 0..9 : Digits[d + 1] = c

RECURSIVE StrNat(_)
StrNat(ds) ==
    IF ds = <<>> THEN 0
    ELSE 10 * StrNat(SubSeq(ds, 1, Len(ds) - 1)) + DigitVal(ds[Len(ds)])

\* the escapes of a basic string that the model reads
Unescape(e) ==
    IF e = "n" THEN Newline
    ELSE IF e = "t" THEN "\t"
    ELSE IF e = "r" THEN "\r"
    ELSE e

\* the rest of a basic string whose opening quote is before p: control
\* characters other than tab are illegal, a backslash starts an escape
RECURSIVE BasicBody(_, _, _)
BasicBody(s, p, acc) ==
    LET c == At(s, p) IN
    IF c = "" \/ c = Newline \/ c = "\r" THEN Fail
    ELSE IF c = Quote THEN Ok(acc, p + 1)
    ELSE IF c = Backslash
    THEN (IF At(s, p + 1) \in {Backslash, Quote, "n", "t", "r"}
          THEN BasicBody(s, p + 2, Append(acc, Unescape(At(s, p + 1))))
          ELSE Fail)
    ELSE BasicBody(s, p + 1, Append(acc, c))

ParseKey(s, p) ==
    IF At(s, p) = Quote THEN BasicBody(s, p + 1, <<>>)
    ELSE LET e == BareRun(s, p) IN
         IF e = p THEN Fail ELSE Ok(SubSeq(s, p, e - 1), e)

ParseNumber(s, p) ==
    LET q == IF At(s, p) \in {"-", "+"} THEN p + 1 ELSE p
        e == DigitRun(s, q)
        f == DigitRun(s, e + 1)
    IN  IF e = q \/ (e - q > 1 /\ s[q] = "0") THEN Fail
        ELSE IF At(s, e) = "."
        THEN (IF f = e + 1 THEN Fail
              ELSE Ok([t |-> "float", repr |-> SubSeq(s, p, f - 1)], f))
        ELSE Ok([t |-> "int",
                 i |-> IF At(s, p) = "-" THEN -StrNat(SubSeq(s, q, e - 1))
                       ELSE StrNat(SubSeq(s, q, e - 1))], e)

RECURSIVE ParseValue(_, _)
RECURSIVE ParseArray(_, _, _)
RECURSIVE ParseInline(_, _, _)

ParseValue(s, p) ==
    LET c == At(s, p) IN
    IF c = Quote
    THEN (IF At(s, p + 1) = Quote /\ At(s, p + 2) = Quote THEN Fail
          ELSE LET r == BasicBody(s, p + 1, <<>>) IN
               IF r.ok THEN Ok([t |-> "str", s |-> r.v], r.p) ELSE Fail)
    ELSE IF c = "t"
    THEN (IF StartsWith(s, p, <<"t", "r", "u", "e">>)
          THEN Ok([t |-> "bool", b |-> TRUE], p + 4) ELSE Fail)
    ELSE IF c = "f"
    THEN (IF StartsWith(s, p, <<"f", "a", "l", "s", "e">>)
          THEN Ok([t |-> "bool", b |-> FALSE], p + 5) ELSE Fail)
    ELSE IF c = "[" THEN ParseArray(s, SkipWsNl(s, p + 1), <<>>)
    ELSE IF c = "{"
    THEN (IF At(s, SkipWs(s, p + 1)) = "}"
          THEN Ok([t |-> "dict", d |-> <<>>], SkipWs(s, p + 1) + 1)
          ELSE ParseInline(s, SkipWs(s, p + 1), <<>>))
    ELSE IF c \in DigitChars \cup {"-", "+"} THEN ParseNumber(s, p)
    ELSE Fail

\* the elements of an array, p after the whitespace that follows [ or ,
ParseArray(s, p, acc) ==
    IF At(s, p) = "]" THEN Ok([t |-> "list", l |-> acc], p + 1)
    ELSE LET r == ParseValue(s, p) IN
         IF ~r.ok THEN Fail
         ELSE LET q == SkipWsNl(s, r.p) IN
              IF At(s, q) = ","
              THEN ParseArray(s, SkipWsNl(s, q + 1), Append(acc, r.v))
              ELSE IF At(s, q) = "]"
              THEN Ok([t |-> "list", l |-> Append(acc, r.v)], q + 1)
              ELSE Fail

\* the pairs of an inline table, p at a key
ParseInline(s, p, acc) ==
    LET k == ParseKey(s, p) IN
    IF ~k.ok \/ At(s, SkipWs(s, k.p)) # "=" THEN Fail
    ELSE LET r == ParseValue(s, SkipWs(s, SkipWs(s, k.p) + 1)) IN
         IF ~r.ok \/ (\E n \in 1..Len(acc) : acc[n].k = k.v) THEN Fail
         ELSE LET q == SkipWs(s, r.p)
                  items == Append(acc, [k |-> k.v, v |-> r.v])
              IN  IF At(s, q) = "," THEN ParseInline(s, SkipWs(s, q + 1), items)
                  ELSE IF At(s, q) = "}"
                  THEN Ok([t |-> "dict", d |-> items], q + 1)
                  ELSE Fail

\* the lines of a document from p on; doc is the root table so far, cur the
\* index of the table the last header opened (0: the root table)
RECURSIVE ParseLines(_, _, _, _)
ParseLines(s, p, doc, cur) ==
    LET q == SkipWs(s, p)
        c == At(s, q)
    IN
    IF c = "" THEN Ok(doc, q)
    ELSE IF c = Newline THEN ParseLines(s, q + 1, doc, cur)
    ELSE IF c = "["
    THEN LET k == ParseKey(s, SkipWs(s, q + 1)) IN
         IF ~k.ok \/ At(s, SkipWs(s, k.p)) # "]" THEN Fail
         ELSE LET e == SkipWs(s, SkipWs(s, k.p) + 1) IN
              IF At(s, e) \notin {Newline, ""}
                 \/ (\E n \in 1..Len(doc) : doc[n].k = k.v)
              THEN Fail
              ELSE ParseLines(s, e,
                              Append(doc, [k |-> k.v,
                                           v |-> [t |-> "dict", d |-> <<>>]]),
                              Len(doc) + 1)
    ELSE LET k == ParseKey(s, q) IN
         IF ~k.ok \/ At(s, SkipWs(s, k.p)) # "=" THEN Fail
         ELSE LET r == ParseValue(s, SkipWs(s, SkipWs(s, k.p) + 1))
                  into == IF cur = 0 THEN doc ELSE doc[cur].v.d
              IN
              IF ~r.ok THEN Fail
              ELSE IF At(s, SkipWs(s, r.p)) \notin {Newline, ""}
                      \/ (\E n \in 1..Len(into) : into[n].k = k.v)
              THEN Fail
              ELSE ParseLines(
                       s, SkipWs(s, r.p),
                       IF cur = 0 THEN Append(doc, [k |-> k.v, v |-> r.v])
                       ELSE [doc EXCEPT ![cur].v.d =
                                Append(@, [k |-> k.v, v |-> r.v])],
                       cur)

\* tomllib.loads(text): [ok |-> FALSE, ...] stands for TOMLDecodeError
Loads(text) ==
    LET r == ParseLines(text, 1, <<>>, 0) IN
    [ok |-> r.ok, doc |-> r.v]

(***************************************************************************)
(* The inputs of main()                                                    *)
(***************************************************************************)

PyBool(b) == [t |-> "bool", b |-> b]
PyInt(i) == [t |-> "int", i |-> i]
PyStr(s) == [t |-> "str", s |-> s]
PyList(l) == [t |-> "list", l |-> l]
PyDict(d) == [t |-> "dict", d |-> d]
Item(k, v) == [k |-> k, v |-> v]

\* 1.5, by its repr
Float15 == [t |-> "float", repr |-> <<"1", ".", "5">>]
\* datetime.date(1979, 5, 27), by its str
Date1979 ==
    [t |-> "other", text |-> <<"1", "9", "7", "9", "-", "0", "5", "-", "2", "7">>]
\* 0xFFF...F with 4000 hex digits: 4817 decimal digits
HugeInt == [t |-> "int", digits |-> 4817]

ConfigKey == <<"_", "_", "c", "o", "n", "f", "i", "g", "_", "_">>

\* the longest document and argument list the model runs main() on
MaxEntries == 3
MaxArgs == 2

TopKeys ==
    {ConfigKey, <<"p", "k", "g">>, <<"a", " ", "b">>, <<"n", Newline>>}

Tables ==
    {PyDict(<<>>),
     PyDict(<<Item(<<"v">>, PyInt(2))>>),
     PyDict(<<Item(<<"u", Quote>>, PyStr(<<"h", Backslash, Newline, Quote>>)),
            Item(<<"l">>, PyList(<<PyBool(TRUE), PyInt(-10), Float15>>))>>),
     PyDict(<<Item(<<"t">>, PyDict(<<Item(<<"y", Newline, "z">>, PyBool(FALSE))>>))>>),
     PyDict(<<Item(<<"x">>, PyInt(1)), Item(<<"h">>, HugeInt)>>)}

NonTables == {PyInt(1), PyStr(<<"s">>)}

\* the documents tomllib.loads can return: items in document order, keys unique
Documents ==
    {d \in UNION {[1..n -> [k : TopKeys, v : Tables \cup NonTables]] :
                    n \in 0..MaxEntries} :
        \A a, b \in 1..Len(d) : a # b => d[a].k # d[b].k}

Inputs == {[ok |-> FALSE, doc |-> <<>>]} \cup {[ok |-> TRUE, doc |-> d] : d \in Documents}

NoRender == [op |-> "none", text |-> <<>>]

Init ==
    /\ argc \in 0..MaxArgs
    /\ stdin \in Inputs
    /\ stdinRead = FALSE
    /\ pc = "start"
    /\ data = <<>>
    /\ non_table = <<>>
    /\ packages = <<>>
    /\ stderr = <<>>
    /\ stdout = <<>>
    /\ fh = "none"
    /\ fileOpens = 0
    /\ fileText = <<>>
    /\ wi = 0
    /\ wj = 0
    /\ exits = <<>>
    /\ rkey = <<>>
    /\ rval = PyBool(FALSE)
    /\ rout = NoRender

(***************************************************************************)
(* main()                                                                  *)
(***************************************************************************)

Notice(kind, text) == [kind |-> kind, text |-> text]

Keys(items) == [n \in 1..Len(items) |-> items[n].k]

HasKey(items, key) == \E n \in 1..Len(items) : items[n].k = key

\* a filter that forgets the reserved key
KeepNoReserved(item) == IsInstance(item.v, "dict")

\* the condition of the comprehension of lines 82-86
Keep(item) == item.k # ConfigKey /\ IsInstance(item.v, "dict")

\* a non-table test that skips the reserved key
NotDictNorReserved(item) == ~IsInstance(item.v, "dict") /\ item.k # ConfigKey

\* the condition of the comprehension of line 74
NotDict(item) == ~IsInstance(item.v, "dict")

\* an uncaught exception: the traceback goes to stderr and the status is 1
Uncaught ==
    /\ stderr' = Append(stderr, Notice("traceback", <<>>))
    /\ exits' = Append(exits, 1)
    /\ pc' = "done"

\* an arity check that only rejects a missing argument
CheckArgsAtLeastOne ==
    /\ pc = "start"
    /\ IF argc < 1
       THEN /\ stderr' = Append(stderr, Notice("usage", <<>>))
            /\ exits' = Append(exits, 2)
            /\ pc' = "done"
       ELSE /\ pc' = "read"
            /\ UNCHANGED <<stderr, exits>>
    /\ UNCHANGED <<argc, stdin, stdinRead, data, non_table, packages, stdout,
                   fh, fileOpens, fileText, wi, wj, rkey, rval, rout>>

\* lines 55-59
CheckArgs ==
    /\ pc = "start"
    /\ IF argc # 1
       THEN /\ stderr' = Append(stderr, Notice("usage", <<>>))
            /\ exits' = Append(exits, 2)
            /\ pc' = "done"
       ELSE /\ pc' = "read"
            /\ UNCHANGED <<stderr, exits>>
    /\ UNCHANGED <<argc, stdin, stdinRead, data, non_table, packages, stdout,
                   fh, fileOpens, fileText, wi, wj, rkey, rval, rout>>

\* lines 61-65
ReadParse ==
    /\ pc = "read"
    /\ stdinRead' = TRUE
    /\ IF stdin.ok
       THEN /\ data' = stdin.doc
            /\ pc' = "warn_config"
            /\ UNCHANGED <<stderr, exits>>
       ELSE /\ stderr' = Append(stderr, Notice("error_toml", <<>>))
            /\ exits' = Append(exits, 1)
            /\ pc' = "done"
            /\ UNCHANGED data
    /\ UNCHANGED <<argc, stdin, non_table, packages, stdout,
                   fh, fileOpens, fileText, wi, wj, rkey, rval, rout>>

\* lines 67-72
WarnConfig ==
    /\ pc = "warn_config"
    /\ stderr' = IF HasKey(data, ConfigKey)
                 THEN Append(stderr, Notice("warning_config", <<>>))
                 ELSE stderr
    /\ pc' = "warn_non_table"
    /\ UNCHANGED <<argc, stdin, stdinRead, data, non_table, packages, stdout,
                   fh, fileOpens, fileText, wi, wj, exits, rkey, rval, rout>>

\* lines 74-80
WarnNonTable ==
    /\ pc = "warn_non_table"
    /\ non_table' = Keys(SelectSeq(data, NotDict))
    /\ stderr' = IF non_table' # <<>>
                 THEN Append(stderr, Notice("warning_non_table",
                                            Join(<<",", " ">>, non_table')))
                 ELSE stderr
    /\ pc' = "filter"
    /\ UNCHANGED <<argc, stdin, stdinRead, data, packages, stdout,
                   fh, fileOpens, fileText, wi, wj, exits, rkey, rval, rout>>

\* lines 82-86
Filter ==
    /\ pc = "filter"
    /\ packages' = SelectSeq(data, Keep)
    /\ pc' = "check_empty"
    /\ UNCHANGED <<argc, stdin, stdinRead, data, non_table, stderr, stdout,
                   fh, fileOpens, fileText, wi, wj, exits, rkey, rval, rout>>

\* an empty-result exit with the status of a usage error
CheckEmptyStatus2 ==
    /\ pc = "check_empty"
    /\ IF packages = <<>>
       THEN /\ stderr' = Append(stderr, Notice("error_empty", <<>>))
            /\ exits' = Append(exits, 2)
            /\ pc' = "done"
       ELSE /\ pc' = "open"
            /\ UNCHANGED <<stderr, exits>>
    /\ UNCHANGED <<argc, stdin, stdinRead, data, non_table, packages, stdout,
                   fh, fileOpens, fileText, wi, wj, rkey, rval, rout>>

\* lines 88-93
CheckEmpty ==
    /\ pc = "check_empty"
    /\ IF packages = <<>>
       THEN /\ stderr' = Append(stderr, Notice("error_empty", <<>>))
            /\ exits' = Append(exits, 1)
            /\ pc' = "done"
       ELSE /\ pc' = "open"
            /\ UNCHANGED <<stderr, exits>>
    /\ UNCHANGED <<argc, stdin, stdinRead, data, non_table, packages, stdout,
                   fh, fileOpens, fileText, wi, wj, rkey, rval, rout>>

(***************************************************************************)
(* _write_packages                                                         *)
(***************************************************************************)

\* line 46: open(path, "w") creates or truncates the file, or raises OSError
Open ==
    /\ pc = "open"
    /\ \E ok \in BOOLEAN :
        IF ok
        THEN /\ fh' = "open"
             /\ fileOpens' = fileOpens + 1
             /\ fileText' = <<>>
             /\ wi' = 1
             /\ wj' = 0
             /\ pc' = "write"
             /\ UNCHANGED <<stderr, exits>>
        ELSE /\ Uncaught
             /\ UNCHANGED <<fh, fileOpens, fileText, wi, wj>>
    /\ UNCHANGED <<argc, stdin, stdinRead, data, non_table, packages, stdout,
                   rkey, rval, rout>>

\* an exception inside the with block: the handle is closed on the way out
\* and the exception is not caught anywhere
RaiseInWith ==
    /\ fh' = "closed"
    /\ Uncaught
    /\ UNCHANGED <<fileText, wi, wj>>

\* a header line without its closing bracket and newline
HeaderLineOpen(name) == <<"[">> \o _toml_key(name)

\* the text of line 48
HeaderLine(name) == <<"[">> \o _toml_key(name) \o <<"]", Newline>>

\* the text of line 50
PairLine(key, val) ==
    _toml_key(key) \o <<" ", "=", " ">> \o _toml_value(val) \o <<Newline>>

\* line 48; fh.write may raise OSError
WriteHeader ==
    /\ pc = "write"
    /\ wj = 0
    /\ \E ok \in BOOLEAN :
        IF ok
        THEN /\ fileText' = fileText \o HeaderLine(packages[wi].k)
             /\ wj' = 1
             /\ UNCHANGED <<fh, wi, pc, stderr, exits>>
        ELSE RaiseInWith
    /\ UNCHANGED <<argc, stdin, stdinRead, data, non_table, packages, stdout,
                   fileOpens, rkey, rval, rout>>

\* lines 49-50; _toml_value may raise ValueError, fh.write may raise OSError
WritePair ==
    /\ pc = "write"
    /\ wj \in 1..Len(packages[wi].v.d)
    /\ \E ok \in BOOLEAN :
        IF ok /\ ~Raises(packages[wi].v.d[wj].v)
        THEN /\ fileText' = fileText \o PairLine(packages[wi].v.d[wj].k,
                                                 packages[wi].v.d[wj].v)
             /\ wj' = wj + 1
             /\ UNCHANGED <<fh, wi, pc, stderr, exits>>
        ELSE RaiseInWith
    /\ UNCHANGED <<argc, stdin, stdinRead, data, non_table, packages, stdout,
                   fileOpens, rkey, rval, rout>>

\* line 51, and the end of the loop of line 47
WriteBlank ==
    /\ pc = "write"
    /\ wj = Len(packages[wi].v.d) + 1
    /\ \E ok \in BOOLEAN :
        IF ok
        THEN /\ fileText' = fileText \o <<Newline>>
             /\ wi' = wi + 1
             /\ wj' = 0
             /\ pc' = IF wi = Len(packages) THEN "close" ELSE "write"
             /\ UNCHANGED <<fh, stderr, exits>>
        ELSE RaiseInWith
    /\ UNCHANGED <<argc, stdin, stdinRead, data, non_table, packages, stdout,
                   fileOpens, rkey, rval, rout>>

\* the normal exit of the with block of line 46
Close ==
    /\ pc = "close"
    /\ fh' = "closed"
    /\ pc' = "print"
    /\ UNCHANGED <<argc, stdin, stdinRead, data, non_table, packages, stderr,
                   stdout, fileOpens, fileText, wi, wj, exits, rkey, rval, rout>>

\* the text of line 96
Summary(items) == Join(<<" ">>, Keys(items))

\* line 96, and the return of main(): status 0
PrintSummary ==
    /\ pc = "print"
    /\ stdout' = Append(stdout, Summary(packages))
    /\ exits' = Append(exits, 0)
    /\ pc' = "done"
    /\ UNCHANGED <<argc, stdin, stdinRead, data, non_table, packages, stderr,
                   fh, fileOpens, fileText, wi, wj, rkey, rval, rout>>

Next ==
    \/ CheckArgs
    \/ ReadParse
    \/ WarnConfig
    \/ WarnNonTable
    \/ Filter
    \/ CheckEmpty
    \/ Open
    \/ WriteHeader
    \/ WritePair
    \/ WriteBlank
    \/ Close
    \/ PrintSummary

Spec == Init /\ [][Next]_vars

(***************************************************************************)
(* The serializer on its own: _toml_key and _toml_value applied to keys    *)
(* and values drawn from bounded sets.                                     *)
(***************************************************************************)

\* the longest key, string, list and mapping handed to the serializer
MaxKeyLen == 3
MaxStrLen == 2
MaxListLen == 2
MaxDictLen == 2

SeqsUpTo(S, n) == UNION {[1..m -> S] : m \in 0..n}

KeyAlphabet == {"a", "-", " ", Quote, Backslash, Newline}
StrAlphabet == {"a", "n", Quote, Backslash, Newline}

RenderKeys == SeqsUpTo(KeyAlphabet, MaxKeyLen)

Atoms ==
    {PyBool(TRUE), PyBool(FALSE), PyInt(0), PyInt(-1), PyInt(7), PyInt(-120),
     PyInt(4096), HugeInt, Float15, Date1979}
    \cup {PyStr(s) : s \in SeqsUpTo(StrAlphabet, MaxStrLen)}

\* what the lists and mappings of the harness hold
Elems ==
    {PyBool(TRUE), PyInt(-12), PyStr(<<"a", Quote>>), PyList(<<>>),
     PyList(<<PyBool(FALSE), PyInt(3)>>), PyDict(<<>>),
     PyDict(<<Item(<<"k", " ">>, PyList(<<PyStr(<<Backslash>>)>>))>>), HugeInt}

ElemKeys == {<<"k">>, <<"a", Newline>>, <<Quote, Backslash>>, <<>>}

RenderValues ==
    Atoms
    \cup {PyList(l) : l \in SeqsUpTo(Elems, MaxListLen)}
    \cup {PyDict(d) : d \in {x \in SeqsUpTo([k : ElemKeys, v : Elems], MaxDictLen) :
                               \A a, b \in 1..Len(x) : a # b => x[a].k # x[b].k}}

InitRender ==
    /\ argc = 1
    /\ stdin = [ok |-> FALSE, doc |-> <<>>]
    /\ stdinRead = FALSE
    /\ pc = "serializer"
    /\ data = <<>>
    /\ non_table = <<>>
    /\ packages = <<>>
    /\ stderr = <<>>
    /\ stdout = <<>>
    /\ fh = "none"
    /\ fileOpens = 0
    /\ fileText = <<>>
    /\ wi = 0
    /\ wj = 0
    /\ exits = <<>>
    /\ \/ rkey \in RenderKeys /\ rval = PyBool(FALSE)
       \/ rkey = <<>> /\ rval \in RenderValues
    /\ rout = NoRender

\* a call of _toml_key(rkey)
RenderKey ==
    /\ rout.op # "key"
    /\ rout' = [op |-> "key", text |-> _toml_key(rkey)]
    /\ UNCHANGED <<rkey, rval>>
    /\ UNCHANGED mainVars

\* a call of _toml_value(rval), which returns a text or raises
RenderValue ==
    /\ rout.op \notin {"value", "raise"}
    /\ rout' = IF Raises(rval) THEN [op |-> "raise", text |-> <<>>]
               ELSE [op |-> "value", text |-> _toml_value(rval)]
    /\ UNCHANGED <<rkey, rval>>
    /\ UNCHANGED mainVars

NextRender == RenderKey \/ RenderValue

SpecRender == InitRender /\ [][NextRender]_vars

(***************************************************************************)
(* Properties of main()                                                    *)
(***************************************************************************)

\* the input parsed and the comprehension of lines 82-86 has run
AfterFilter ==
    argc = 1 /\ stdin.ok /\ pc \in {"check_empty", "open", "write", "close", "print", "done"}

\* the index of the top-level key in the Document
Pos(items, key) == CHOOSE n \in 1..Len(items) : items[n].k = key

\* the top-level entries that are tables under a name other than the reserved one
IsEntry(item) == item.k # ConfigKey /\ item.v.t = "dict"

\* the number of notices of a kind on the error stream
Count(kind) == Cardinality({n \in 1..Len(stderr) : stderr[n].kind = kind})

\* C1: once the input has parsed and been filtered, the Filtered Set holds
\* exactly the Document's top-level entries whose key is not "__config__" and
\* whose value is a mapping, each with its value as it is in the Document,
\* in the Document's order; the Document itself is what was parsed.
C1_FilteredSet ==
    AfterFilter =>
        /\ data = stdin.doc
        /\ \A n \in 1..Len(packages) :
              /\ packages[n].v.t = "dict"
              /\ packages[n].k # ConfigKey
              /\ \E m \in 1..Len(data) : data[m] = packages[n]
        /\ \A m \in 1..Len(data) :
              IsEntry(data[m]) => \E n \in 1..Len(packages) : packages[n] = data[m]
        /\ \A a, b \in 1..Len(packages) :
              a < b => Pos(data, packages[a].k) < Pos(data, packages[b].k)

\* a run that kept two entries around a non-table key and dropped [__config__]
C1_Witness ==
    /\ pc = "done"
    /\ exits = <<0>>
    /\ Len(data) = 3
    /\ Len(packages) = 2
    /\ \E m \in 1..Len(data) : data[m].k = ConfigKey /\ data[m].v.t = "dict"

Crashed == \E n \in 1..Len(stderr) : stderr[n].kind = "traceback"

\* some retained entry holds a value that _toml_value cannot render
Unrenderable(items) ==
    \E m \in 1..Len(items) :
        IsEntry(items[m]) /\ \E n \in 1..Len(items[m].v.d) : Raises(items[m].v.d[n].v)

C3_NoOutputOnFailure ==
    (pc = "done" /\ exits # <<0>>) =>
        fileOpens = 0 /\ fh = "none" /\ fileText = <<>> /\ stdout = <<>>

\* C4: the text written by a successful run parses, and the parsed document,
\* filtered the same way, is the Filtered Set: same keys, same values, same order.
C4_RoundTrip ==
    (pc = "done" /\ exits = <<0>>) =>
        /\ Loads(fileText).ok
        /\ SelectSeq(Loads(fileText).doc, Keep) = packages

C8_UsageAndReadFirst ==
    /\ argc # 1 =>
          /\ ~stdinRead
          /\ fileOpens = 0 /\ fh = "none" /\ fileText = <<>> /\ stdout = <<>>
          /\ \A n \in 1..Len(stderr) : stderr[n].kind = "usage"
          /\ pc = "done" => stderr = <<Notice("usage", <<>>)>> /\ exits = <<2>>
    /\ argc = 1 =>
          ((stderr # <<>> \/ fileOpens > 0 \/ fileText # <<>> \/ stdout # <<>>
            \/ exits # <<>>) => stdinRead)

\* a run with two arguments that has ended with the usage message
C8_Witness ==
    argc = 2 /\ pc = "done" /\ stderr = <<Notice("usage", <<>>)>> /\ exits = <<2>>

\* the section of one entry: header line, one line per pair, one blank line
Section(item) ==
    <<"[">> \o _toml_key(item.k) \o <<"]", Newline>>
    \o Concat([n \in 1..Len(item.v.d) |->
                  _toml_key(item.v.d[n].k) \o <<" ", "=", " ">>
                  \o _toml_value(item.v.d[n].v) \o <<Newline>>])
    \o <<Newline>>

\* the names, each followed by a space
RECURSIVE Spaced(_)
Spaced(names) ==
    IF names = <<>> THEN <<>> ELSE Head(names) \o <<" ">> \o Spaced(Tail(names))

\* C10: the output file is opened at most once and only after the argument
\* count, the parse and the non-empty Filtered Set have been checked; no run
\* ends with the handle open; standard output holds at most one line, written
\* only with the handle closed, which is the raw names joined by single
\* spaces, and then the file holds one complete section per name, in order.
C10_OpenCloseSummary ==
    /\ fileOpens <= 1
    /\ fileOpens > 0 =>
          /\ argc = 1 /\ stdin.ok /\ stdinRead
          /\ pc \in {"write", "close", "print", "done"}
          /\ packages # <<>> /\ packages = SelectSeq(stdin.doc, IsEntry)
    /\ fh = "open" <=> pc \in {"write", "close"}
    /\ fh = "closed" => fileOpens = 1
    /\ Len(stdout) <= 1
    /\ stdout # <<>> =>
          /\ fh = "closed" /\ pc = "done" /\ exits = <<0>>
          /\ stdout[1] \o <<" ">> = Spaced(Keys(packages))
          /\ fileText = Concat([n \in 1..Len(packages) |-> Section(packages[n])])

\* a run that wrote two sections and then the summary
C10_Witness ==
    /\ pc = "done"
    /\ stdout # <<>>
    /\ Len(packages) = 2
    /\ \E n \in 1..2 : Len(packages[n].v.d) = 2

(***************************************************************************)
(* Properties of the serializer                                            *)
(***************************************************************************)

\* the key is one or more characters of [A-Za-z0-9_-]
WholeKeyBare(key) == key # <<>> /\ \A n \in 1..Len(key) : key[n] \in BareChars

\* the text starts and ends with a double quote
DoubleQuoted(text) == Len(text) >= 2 /\ text[1] = Quote /\ text[Len(text)] = Quote

\* C5: _toml_key returns the key itself iff the whole key is one or more
\* characters of [A-Za-z0-9_-]; every other key is returned double-quoted.
C5_BareIffClass ==
    rout.op = "key" =>
        /\ rout.text = rkey <=> WholeKeyBare(rkey)
        /\ ~WholeKeyBare(rkey) => DoubleQuoted(rout.text)

\* C6: a key that does not match [A-Za-z0-9_-]+ is rendered as a quoted
\* string that parses back, as a quoted key, to the key; a key that matches
\* is rendered as itself.
C6_KeyRoundTrip ==
    rout.op = "key" =>
        IF WholeKeyBare(rkey) THEN rout.text = rkey
        ELSE /\ DoubleQuoted(rout.text)
             /\ ParseKey(rout.text, 1) = Ok(rkey, Len(rout.text) + 1)

\* one character of a string value, escaped
EscapeChar(c) ==
    IF c = Backslash THEN <<Backslash, Backslash>>
    ELSE IF c = Quote THEN <<Backslash, Quote>>
    ELSE IF c = Newline THEN <<Backslash, "n">>
    ELSE <<c>>

\* the text is the decimal numeral of i: an optional minus sign, digits
\* without a leading zero, and the digits' value is the magnitude of i
IsDecimalOf(text, i) ==
    LET ds == IF i < 0 THEN Tail(text) ELSE text IN
    /\ i < 0 => text # <<>> /\ Head(text) = "-"
    /\ ds # <<>>
    /\ \A n \in 1..Len(ds) : ds[n] \in DigitChars
    /\ Len(ds) > 1 => ds[1] # "0"
    /\ StrNat(ds) = (IF i < 0 THEN -i ELSE i)

RECURSIVE Pow10(_)
Pow10(e) == IF e = 0 THEN 1 ELSE 10 * Pow10(e - 1)

\* the number of decimal digits of a natural number
NumDigits(n) == CHOOSE c \in 1..10 : n < Pow10(c) /\ (c > 1 => n >= Pow10(c - 1))

\* the decimal numeral of a natural number, most significant digit first
Numeral(n) ==
    [c \in 1..NumDigits(n) |-> Digits[((n \div Pow10(NumDigits(n) - c)) % 10) + 1]]

\* the value holds, at some depth, an integer that str() does not convert
RECURSIVE HoldsHugeInt(_)
HoldsHugeInt(value) ==
    CASE value.t = "int" -> "digits" \in DOMAIN value /\ value.digits > MaxStrDigits
      [] value.t = "list" -> \E n \in 1..Len(value.l) : HoldsHugeInt(value.l[n])
      [] value.t = "dict" -> \E n \in 1..Len(value.d) : HoldsHugeInt(value.d[n].v)
      [] OTHER -> FALSE

\* the rendering of a value by a match on its kind
RECURSIVE Rendering(_)
Rendering(value) ==
    CASE value.t = "bool" -> (IF value.b THEN <<"t", "r", "u", "e">>
                              ELSE <<"f", "a", "l", "s", "e">>)
      [] value.t = "int" ->
            (IF value.i < 0 THEN <<"-">> \o Numeral(-value.i) ELSE Numeral(value.i))
      [] value.t = "float" -> value.repr
      [] value.t = "str" ->
            <<Quote>> \o Concat([n \in 1..Len(value.s) |-> EscapeChar(value.s[n])])
            \o <<Quote>>
      [] value.t = "list" ->
            IF value.l = <<>> THEN <<"[", "]">>
            ELSE <<"[">>
                 \o Join(<<",", " ">>, [n \in 1..Len(value.l) |-> Rendering(value.l[n])])
                 \o <<"]">>
      [] value.t = "dict" ->
            IF value.d = <<>> THEN <<"{", "}">>
            ELSE <<"{">>
                 \o Join(<<",", " ">>,
                         [n \in 1..Len(value.d) |->
                             _toml_key(value.d[n].k) \o <<" ", "=", " ">>
                             \o Rendering(value.d[n].v)])
                 \o <<"}">>
      [] OTHER -> value.text

\* C9: for every value whose integers str() converts, _toml_value returns
\* the rendering by kind: a boolean as true/false, an integer as its signed
\* decimal numeral, a string double-quoted with backslash, double quote and
\* newline escaped character by character, a list in brackets and a mapping
\* in braces with ", " between the members, any other kind as its text form.
C9_ValueRendering ==
    /\ rout.op = "value" => rout.text = Rendering(rval)
    /\ rout.op = "raise" <=> (rout.op # "key" /\ rout.op # "none" /\ HoldsHugeInt(rval))
    /\ (rout.op = "value" /\ rval.t = "int") => IsDecimalOf(rout.text, rval.i)
    /\ (rout.op = "value" /\ rval.t = "bool") =>
          rout.text \in {<<"t", "r", "u", "e">>, <<"f", "a", "l", "s", "e">>}

\* a mapping with a quoted key and a nested list has been rendered
C9_Witness ==
    /\ rout.op = "value"
    /\ rval.t = "dict"
    /\ Len(rval.d) = 2
    /\ \E n \in 1..2 : rval.d[n].v.t = "str" /\ ~WholeKeyBare(rval.d[n].k)

====
